---- MODULE Spec2Model ----
(***************************************************************************)
(* Snapshot ingestion pipeline of core/scripts/players_stats_5k.py:        *)
(* fetch_player_stats (retry loop and record decoding), the dropped-player *)
(* store (load_dropped_players / append_dropped_player), build_database    *)
(* and the __main__ run.                                                   *)
(*                                                                         *)
(* Text is modelled as a sequence of one-character strings, a CSV file as  *)
(* a sequence of lines, an optional value (None or an int) as a sequence   *)
(* of length at most one.                                                  *)
(***************************************************************************)
EXTENDS Integers, Sequences, FiniteSets, TLC

\* ------------------------------------------------------------------------
\* Schema registry
\* ------------------------------------------------------------------------

SKILLS ==
 <<
    "overall", "attack", "defence", "strength", "hitpoints", "ranged",
    "prayer", "magic", "cooking", "woodcutting", "fletching", "fishing",
    "firemaking", "crafting", "smithing", "mining", "herblore", "agility",
    "thieving", "slayer", "farming", "runecraft", "hunter", "construction",
    "sailing"
 >>

BOSSES ==
 <<
    "abyssal_sire", "alchemical_hydra", "amoxliatl", "araxxor", "artio",
    "barrows_chests", "bryophyta", "callisto", "calvarion", "cerberus",
    "chambers_of_xeric", "chambers_of_xeric_challenge_mode",
    "chaos_elemental", "chaos_fanatic", "commander_zilyana",
    "corporeal_beast", "crazy_archaeologist", "dagannoth_prime",
    "dagannoth_rex", "dagannoth_supreme", "deranged_archaeologist",
    "doom_of_mokhaiotl", "duke_sucellus", "general_graardor", "giant_mole",
    "grotesque_guardians", "hespori", "kalphite_queen", "king_black_dragon",
    "kraken", "kree_arra", "kril_tsutsaroth", "lunar_chests", "mimic", "nex",
    "nightmare", "phosanis_nightmare", "obor", "phantom_muspah", "sarachnis",
    "scorpia", "scurrius", "skotizo", "sol_heredit", "spindel", "tempoross",
    "gauntlet", "corrupted_gauntlet", "hueycoatl", "leviathan",
    "royal_titans", "whisperer", "theatre_of_blood",
    "theatre_of_blood_hard_mode", "thermonuclear_smoke_devil",
    "tombs_of_amascut", "tombs_of_amascut_expert_mode", "tzkal_zuk",
    "tztok_jad", "vardorvis", "venenatis", "vetion", "vorkath", "wintertodt",
    "yama", "zalcano", "zulrah"
 >>

\* Default arguments of fetch_player_stats.
DefaultMaxRetries == 5
DefaultBaseDelay == 3

\* ------------------------------------------------------------------------
\* Bounds of the model
\* ------------------------------------------------------------------------

\* Longest candidate list read from the players list.
MaxCands == 2
\* Number of runs of the script.
MaxRuns == 2
\* Largest max_retries / base_delay a direct call of fetch_player_stats gets.
MaxRetriesArg == 4
\* Smallest max_retries of a direct call: 0 - MaxNegRetries.
MaxNegRetries == 1
MaxDelayArg == 2
\* Number of direct calls of append_dropped_player.
MaxAppends == 3
\* Largest number of activity rows a payload holds before its boss block.
MaxExtraRows == 2
\* Entries of SKILL_TABLES the name-discovery script is followed through, and
\* largest number of rows of a hiscore page.
MaxSkillTables == 2
MaxPageLen == 2
\* Largest number of points of a timeline.
MaxPoints == 2

\* ------------------------------------------------------------------------
\* Text helpers
\* ------------------------------------------------------------------------

None == <<>>
Some(v) == <<v>>

Digits == <<"0","1","2","3","4","5","6","7","8","9">>
DigitSet == {Digits[i] : i \in 1..10}
DigitValue == [c \in DigitSet |-> (CHOOSE i \in 1..10 : Digits[i] = c) - 1]
DigitVal(c) == DigitValue[c]

\* Python's `needle in text` on strings.
Contains(text, needle) ==
    \E i \in 0..(Len(text) - Len(needle)) :
        \A j \in 1..Len(needle) : text[i + j] = needle[j]

RECURSIVE StripLeft(_)
StripLeft(s) == IF s # <<>> /\ Head(s) = " " THEN StripLeft(Tail(s)) ELSE s
RECURSIVE StripRight(_)
StripRight(s) ==
    IF s # <<>> /\ s[Len(s)] = " " THEN StripRight(SubSeq(s, 1, Len(s) - 1)) ELSE s
\* str.strip() for the blank character.
Strip(s) == StripRight(StripLeft(s))

RECURSIVE DigitsValue(_)
DigitsValue(s) ==
    IF s = <<>> THEN 0
    ELSE 10 * DigitsValue(SubSeq(s, 1, Len(s) - 1)) + DigitVal(s[Len(s)])

AllDigits(s) == s # <<>> /\ \A i \in 1..Len(s) : s[i] \in DigitSet

\* Python's int(text): surrounding blanks are ignored, one optional sign, then
\* decimal digits.  The result is None (<<>>) when int() raises ValueError.
ParseInt(text) ==
    LET s == Strip(text)
        signed == s # <<>> /\ Head(s) \in {"-", "+"}
        body == IF signed THEN Tail(s) ELSE s
    IN  IF ~AllDigits(body) THEN None
        ELSE IF signed /\ Head(s) = "-" THEN Some(0 - DigitsValue(body))
        ELSE Some(DigitsValue(body))

RECURSIVE NatToText(_)
NatToText(n) ==
    IF n < 10 THEN <<Digits[n + 1]>>
    ELSE NatToText(n \div 10) \o <<Digits[(n % 10) + 1]>>

\* Python's str(int).
IntToText(n) == IF n < 0 THEN <<"-">> \o NatToText(0 - n) ELSE NatToText(n)

NotOnHiscores == <<"n","o","t"," ","o","n"," ","h","i","s","c","o","r","e","s">>
MsgPlayer == <<"P","l","a","y","e","r"," ","'">>
MsgNotOnHiscoresTail == <<"'"," ","n","o","t"," ","o","n"," ","h","i","s","c","o","r","e","s",".">>
MsgInvalidLiteral == <<"i","n","v","a","l","i","d"," ","l","i","t","e","r","a","l"," ","f","o","r"," ","i","n","t","(",")"," ","w","i","t","h"," ","b","a","s","e"," ","1","0",":"," ","'">>
MsgNotEnough == <<"n","o","t"," ","e","n","o","u","g","h"," ","v","a","l","u","e","s"," ","t","o"," ","u","n","p","a","c","k"," ","(","e","x","p","e","c","t","e","d"," ","3",","," ","g","o","t"," ">>
MsgTooMany == <<"t","o","o"," ","m","a","n","y"," ","v","a","l","u","e","s"," ","t","o"," ","u","n","p","a","c","k"," ","(","e","x","p","e","c","t","e","d"," ","3",")">>
MsgUnexpected == <<"U","n","e","x","p","e","c","t","e","d"," ","e","r","r","o","r"," ","f","e","t","c","h","i","n","g"," ","s","t","a","t","s"," ","f","o","r"," ">>

\* ------------------------------------------------------------------------
\* Exceptions
\* ------------------------------------------------------------------------

Exc(type, msg) == [type |-> type, msg |-> msg]

\* requests.exceptions.RequestException and its subclasses raised here.
RequestExceptionTypes == {"HTTPError", "ConnectionError", "Timeout"}
IsRequestException(e) == e.type \in RequestExceptionTypes
IsValueError(e) == e.type = "ValueError"

Returned(v) == [type |-> "return", value |-> v, exc |-> Exc("", <<>>)]
Raised(e) == [type |-> "raise", value |-> <<>>, exc |-> e]
NoResult == [type |-> "none", value |-> <<>>, exc |-> Exc("", <<>>)]

\* ------------------------------------------------------------------------
\* Record decoding: fetch_player_stats, "Parse response text into stats dict"
\* ------------------------------------------------------------------------

Min(a, b) == IF a < b THEN a ELSE b
\* The elements of a list.
Range(q) == {q[i] : i \in 1..Len(q)}

RECURSIVE DropLeadingBlank(_)
DropLeadingBlank(lines) ==
    IF lines # <<>> /\ Head(lines) = <<>> THEN DropLeadingBlank(Tail(lines)) ELSE lines
RECURSIVE DropTrailingBlank(_)
DropTrailingBlank(lines) ==
    IF lines # <<>> /\ lines[Len(lines)] = <<>>
    THEN DropTrailingBlank(SubSeq(lines, 1, Len(lines) - 1))
    ELSE lines

\* list(csv.reader(text.strip().split("\n"))).  A text is held as its lines,
\* each line as its comma-separated fields; a blank line has no field.
\* strip() removes the blank lines at both ends, split() of what is left
\* yields at least one line, and csv.reader turns a blank line into [].
CsvRows(text) ==
    LET t == DropTrailingBlank(DropLeadingBlank(text))
    IN  IF t = <<>> THEN << <<>> >> ELSE t

\* The first of the fields 1..3 that int() rejects, 0 if none.
FirstBadField(row) ==
    IF \E k \in 1..3 : ParseInt(row[k]) = None
    THEN CHOOSE k \in 1..3 :
            /\ ParseInt(row[k]) = None
            /\ \A j \in 1..(k - 1) : ParseInt(row[j]) # None
    ELSE 0

\* `r, lvl, xp = row` followed by int(r), int(lvl), int(xp): the ValueError
\* the row raises, or NoResult.exc when it parses.
SkillRowError(row) ==
    IF Len(row) < 3
    THEN Exc("ValueError", MsgNotEnough \o IntToText(Len(row)) \o <<")">>)
    ELSE IF Len(row) > 3
    THEN Exc("ValueError", MsgTooMany)
    ELSE IF FirstBadField(row) # 0
    THEN Exc("ValueError", MsgInvalidLiteral \o row[FirstBadField(row)] \o <<"'">>)
    ELSE NoResult.exc

SkillEntry(row) ==
    [rank |-> ParseInt(row[1])[1], level |-> ParseInt(row[2])[1],
     xp |-> ParseInt(row[3])[1]]

\* One boss row: short rows give the placeholder, each field is parsed on its
\* own, a negative rank becomes None and a negative kill count becomes 0.
BossEntry_Coupled(row) ==
    IF Len(row) < 2 \/ ParseInt(row[1]) = None \/ ParseInt(row[2]) = None
    THEN [rank |-> None, kc |-> None]
    ELSE [rank |-> IF ParseInt(row[1])[1] < 0 THEN None ELSE ParseInt(row[1]),
          kc |-> IF ParseInt(row[2])[1] < 0 THEN Some(0) ELSE ParseInt(row[2])]
BossEntry_Raw(row) ==
    IF Len(row) < 2 THEN [rank |-> None, kc |-> None]
    ELSE [rank |-> ParseInt(row[1]), kc |-> ParseInt(row[2])]
BossEntry(row) ==
    IF Len(row) < 2 THEN [rank |-> None, kc |-> None]
    ELSE LET rank == ParseInt(row[1])
             kc == ParseInt(row[2])
         IN  [rank |-> IF rank # None /\ rank[1] < 0 THEN None ELSE rank,
              kc |-> IF kc # None /\ kc[1] < 0 THEN Some(0) ELSE kc]

BossRows_NoGuard(rows) ==
    LET activity_rows == SubSeq(rows, Len(SKILLS) + 1, Len(rows))
    IN  SubSeq(activity_rows, Len(activity_rows) - Min(Len(activity_rows), Len(BOSSES)) + 1,
               Len(activity_rows))
BossRows_Leading(rows) ==
    LET activity_rows == SubSeq(rows, Len(SKILLS) + 1, Len(rows))
    IN  IF Len(activity_rows) >= Len(BOSSES)
        THEN SubSeq(activity_rows, 1, Len(BOSSES))
        ELSE <<>>
\* activity_rows[-boss_count:] if len(activity_rows) >= boss_count else []
BossRows(rows) ==
    LET activity_rows == SubSeq(rows, Len(SKILLS) + 1, Len(rows))
        boss_count == Len(BOSSES)
    IN  IF Len(activity_rows) >= boss_count
        THEN SubSeq(activity_rows, Len(activity_rows) - boss_count + 1,
                    Len(activity_rows))
        ELSE <<>>

SkillNames == {SKILLS[i] : i \in 1..Len(SKILLS)}
BossNames == {BOSSES[i] : i \in 1..Len(BOSSES)}
\* Position of a name in its list (zip pairs names and rows by position).
SkillIndex == [s \in SkillNames |-> CHOOSE i \in 1..Len(SKILLS) : SKILLS[i] = s]
BossIndex == [b \in BossNames |-> CHOOSE i \in 1..Len(BOSSES) : BOSSES[i] = b]

SkillRowParses(row) == Len(row) = 3 /\ \A k \in 1..3 : ParseInt(row[k]) # None

\* The whole decoding step: the stats dict returned, or the exception raised
\* by the first skill row that does not parse.  zip(SKILLS, skill_rows) stops
\* at the shorter of the two.
Decode(text) ==
    LET rows == CsvRows(text)
        n == Min(Len(rows), Len(SKILLS))
        bad == {i \in 1..n : ~SkillRowParses(rows[i])}
        boss_rows == BossRows(rows)
        m == Len(boss_rows)
    IN  IF bad # {}
        THEN Raised(SkillRowError(rows[CHOOSE i \in bad : \A j \in bad : i <= j]))
        ELSE Returned(
               [skills |-> [s \in {SKILLS[i] : i \in 1..n} |-> SkillEntry(rows[SkillIndex[s]])],
                bosses |-> [b \in {BOSSES[i] : i \in 1..m} |-> BossEntry(boss_rows[BossIndex[b]])]])

\* ------------------------------------------------------------------------
\* Inputs: player names, payloads and transport responses
\* ------------------------------------------------------------------------

\* Player names, as the cells of the players list hold them.
NameZez == <<"Z","e","z">>
Name007 == <<"0","0","7">>
NameNA == <<"N","A">>
NameSet == {NameZez, Name007, NameNA}

GoodSkillRow == << <<"1","2">>, <<"9","9">>, <<"5">> >>
GoodBossRow == << <<"4">>, <<"1","0">> >>

\* A row of the given kind at line i of a payload.
RowOfKind(kind, i) ==
    CASE kind = "two_fields" -> << <<"1">>, <<"2">> >>
      [] kind = "four_fields" -> << <<"1">>, <<"2">>, <<"3">>, <<"4">> >>
      [] kind = "non_numeric" -> << <<"1">>, <<"x","7">>, <<"3">> >>
      [] kind = "phrase" -> << NotOnHiscores, <<"1">>, <<"1">> >>
      [] kind = "blank" -> <<>>
      [] kind = "unranked" -> << <<"-","1">>, <<"1">>, <<" ","0">> >>
      [] kind = "negative" -> << <<"-","1">>, <<"-","1">> >>
      [] kind = "one_field" -> << <<"5">> >>
      [] kind = "bad_rank" -> << <<"x">>, <<"-","5">> >>
      [] kind = "bad_kc" -> << <<"8">>, <<"x">> >>
      [] kind = "indexed" -> << IntToText(i), IntToText(i) >>
      [] OTHER -> IF i <= Len(SKILLS) THEN GoodSkillRow ELSE GoodBossRow

\* The payload of nlines lines whose line i is of kind defects[i] for the i
\* in DOMAIN defects, and a well-formed skill or activity row elsewhere.
TextOf(nlines, defects) ==
    [i \in 1..nlines |->
        RowOfKind(IF i \in DOMAIN defects THEN defects[i] ELSE "good", i)]

FullLen == Len(SKILLS) + Len(BOSSES)
NoDefect == [i \in {} |-> "good"]
OneDefect(i, kind) == [j \in {i} |-> kind]

\* Payloads the hiscores answer a name of the players list with.
GoodText == TextOf(FullLen, OneDefect(Len(SKILLS) + 1, "negative"))
ShortText == TextOf(Len(SKILLS) - 1, NoDefect)
BadCountText == TextOf(FullLen, OneDefect(3, "two_fields"))
PhraseText == TextOf(FullLen, OneDefect(2, "phrase"))
PhraseBadCountText ==
    TextOf(FullLen, [j \in {2, 3} |-> IF j = 2 THEN "phrase" ELSE "two_fields"])

\* A payload with extra activity rows before the boss block; every activity
\* row holds its line number as rank and as kill count.
ExtraText(extra) ==
    TextOf(FullLen + extra,
           [j \in (Len(SKILLS) + 1)..(FullLen + extra) |-> "indexed"])

\* A payload whose first boss rows hold a non-integer rank, a non-integer
\* kill count, a single field and no field.
MixedBossText ==
    TextOf(FullLen,
           [j \in (Len(SKILLS) + 1)..(Len(SKILLS) + 4) |->
               <<"bad_rank", "bad_kc", "one_field", "blank">>[j - Len(SKILLS)]])

\* Payloads a direct call of fetch_player_stats is answered with.
SkillRowKinds ==
    {"two_fields", "four_fields", "non_numeric", "phrase", "blank", "unranked"}
BossRowKinds == {"negative", "one_field", "bad_rank", "bad_kc"}
PayloadSet ==
    {TextOf(n, NoDefect) : n \in {0, 1, Len(SKILLS) - 1, Len(SKILLS), FullLen}}
    \cup {TextOf(FullLen, OneDefect(i, k)) :
            i \in {1, Len(SKILLS), Len(SKILLS) + 1}, k \in SkillRowKinds}
    \cup {TextOf(Len(SKILLS) - 1, OneDefect(2, k)) : k \in {"two_fields", "phrase"}}
    \cup {PhraseBadCountText}
    \cup {TextOf(FullLen, OneDefect(i, k)) :
            i \in {Len(SKILLS) + 1, FullLen}, k \in BossRowKinds}
    \cup {TextOf(n, NoDefect) : n \in {Len(SKILLS) + 1, FullLen - 1}}
    \cup {ExtraText(extra) : extra \in 0..MaxExtraRows}
    \cup {MixedBossText}

HttpResponse(status, body) == [kind |-> "http", status |-> status, text |-> body]
NetworkError(type) == [kind |-> type, status |-> 0, text |-> <<>>]

\* Outcomes of requests.get that end in a RequestException.
TransientResponses ==
    {HttpResponse(500, <<>>), HttpResponse(502, <<>>), NetworkError("ConnectionError")}

\* Everything the transport may answer a direct call with.
AllResponses ==
    TransientResponses
    \cup {HttpResponse(404, <<>>), HttpResponse(204, <<>>)}
    \cup {HttpResponse(200, t) : t \in PayloadSet}

\* What the hiscores answer for a name: 404, or a 200 with one of these
\* payloads.
RemoteKinds == {"absent", "good", "short", "badcount", "phrase", "phrase_badcount"}
Answer(kind) ==
    CASE kind = "absent" -> HttpResponse(404, <<>>)
      [] kind = "good" -> HttpResponse(200, GoodText)
      [] kind = "short" -> HttpResponse(200, ShortText)
      [] kind = "badcount" -> HttpResponse(200, BadCountText)
      [] kind = "phrase" -> HttpResponse(200, PhraseText)
      [] OTHER -> HttpResponse(200, PhraseBadCountText)

\* Decode, tabulated once for the payloads above (the same values).
KnownTexts ==
    PayloadSet \cup {GoodText, ShortText, BadCountText, PhraseText, PhraseBadCountText}
DecodeTable == [t \in KnownTexts |-> Decode(t)]
DecodeText(text) == IF text \in KnownTexts THEN DecodeTable[text] ELSE Decode(text)

\* ------------------------------------------------------------------------
\* State
\* ------------------------------------------------------------------------

VARIABLES
    pc,               \* position of the script
    player_name,      \* fetch_player_stats: argument
    max_retries,      \* fetch_player_stats: argument
    base_delay,       \* fetch_player_stats: argument
    attempt,          \* fetch_player_stats: loop variable
    last_exc,         \* fetch_player_stats: last RequestException caught
    delay,            \* fetch_player_stats: delay of the pending sleep
    result,           \* what fetch_player_stats returned or raised
    trace,            \* network calls and sleeps of the current fetch, in order
    run,              \* number of the current run of the script (its date)
    all_player_names, \* __main__: the players list
    player_names,     \* __main__: candidates of the current run
    dropped,          \* __main__: set loaded from the dropped store
    idx,              \* build_database: position in player_names
    rows,             \* build_database: rows built so far
    dropped_store,    \* data/dropped_players.csv
    panel_store,      \* data/players_stats_5k.csv
    remote,           \* what the hiscores currently answer for each name
    remote_changed,   \* the hiscores changed since the first run
    network_calls,    \* requests.get calls made so far in the current run
    log,              \* per run: what the run loaded, fetched and appended
    events,           \* current run: fetch starts, network calls, appends
    names_file,       \* players_list.py: data/players_list.csv
    existing_names,   \* players_list.py: names loaded and added so far
    skill_idx,        \* players_list.py: position in SKILL_TABLES
    collected,        \* sample_names_for_skill: names collected so far
    attempts,         \* sample_names_for_skill: loop counter
    page_fetches,     \* sample_names_for_skill: calls of fetch_page_names so far
    all_new_rows,     \* players_list.py: rows to append, in order
    sample_log,       \* per skill sampled: existing_names at the call, names returned
    target_date,      \* vorkath_deltas.py: the date compared against
    timeline_resp,    \* vorkath_deltas.py: answer to the timeline request
    player_resp,      \* vorkath_deltas.py: answer to the player request
    past,             \* main: (past_kc, past_date)
    current,          \* main: (current_kc, current_date)
    delta_rows        \* main: rows built so far

fetch_vars == <<player_name, max_retries, base_delay, attempt, last_exc, delay,
                result, trace>>
run_vars == <<run, all_player_names, player_names, dropped, idx, rows,
              dropped_store, panel_store, remote, remote_changed, network_calls,
              log, events>>
list_vars == <<names_file, existing_names, skill_idx, collected, attempts,
               page_fetches, all_new_rows, sample_log>>
delta_vars == <<target_date, timeline_resp, player_resp, past, current, delta_rows>>
vars == <<pc, fetch_vars, run_vars, list_vars, delta_vars>>

\* players_list.py and vorkath_deltas.py have not been started.
ListNotRun ==
    /\ names_file = [exists |-> FALSE, header |-> <<>>, rows |-> <<>>]
    /\ existing_names = {}
    /\ skill_idx = 0
    /\ collected = <<>>
    /\ attempts = 0
    /\ page_fetches = 0
    /\ all_new_rows = <<>>
    /\ sample_log = <<>>
DeltaNotRun ==
    /\ target_date = [empty |-> TRUE, day |-> 0, hour |-> 0, z |-> FALSE]
    /\ timeline_resp = [status |-> 0, points |-> <<>>]
    /\ player_resp = [status |-> 0, snapshot |-> FALSE, vorkath |-> FALSE, kills |-> <<>>]
    /\ past = <<>>
    /\ current = <<>>
    /\ delta_rows = <<>>

NoExc == NoResult.exc
AbsentFile == [exists |-> FALSE, lines |-> <<>>]

\* ------------------------------------------------------------------------
\* fetch_player_stats
\* ------------------------------------------------------------------------

GetEvent(k, resp) == [ev |-> "get", attempt |-> k, resp |-> resp, delay |-> 0]
SleepEvent(k, d) ==
    [ev |-> "sleep", attempt |-> k, resp |-> NetworkError(""), delay |-> d]

\* The exception requests.get / raise_for_status raise for a response, NoExc
\* when neither raises.  raise_for_status raises for 400 <= status < 600.
TransportError(resp) ==
    IF resp.kind # "http" THEN Exc(resp.kind, <<>>)
    ELSE IF resp.status >= 400 /\ resp.status < 600
    THEN Exc("HTTPError", IntToText(resp.status))
    ELSE NoExc

NotFoundError(name) == Exc("ValueError", MsgPlayer \o name \o MsgNotOnHiscoresTail)

\* for attempt in range(1, max_retries + 1): loop entry.  An empty range runs
\* the else clause at once: raise last_exc or RuntimeError(...).
FetchEnter_AlwaysLoop(name, mr, bd) ==
    /\ player_name' = name
    /\ max_retries' = mr
    /\ base_delay' = bd
    /\ attempt' = 1
    /\ last_exc' = NoExc
    /\ delay' = 0
    /\ trace' = <<>>
    /\ pc' = "attempt"
    /\ result' = NoResult
FetchEnter(name, mr, bd) ==
    /\ player_name' = name
    /\ max_retries' = mr
    /\ base_delay' = bd
    /\ attempt' = 1
    /\ last_exc' = NoExc
    /\ delay' = 0
    /\ trace' = <<>>
    /\ IF mr >= 1
       THEN /\ pc' = "attempt"
            /\ result' = NoResult
       ELSE /\ pc' = "handle"
            /\ result' = Raised(Exc("RuntimeError", MsgUnexpected \o name))

\* if resp.status_code == 404
IsNotFound_Never(resp) == FALSE
IsNotFound(resp) == resp.kind = "http" /\ resp.status = 404

\* if attempt == max_retries
Exhausted_Never(k, mr) == FALSE
Exhausted_OneEarly(k, mr) == k = mr - 1
Exhausted(k, mr) == k = mr

\* delay = base_delay * attempt
Backoff_Constant(bd, k) == bd
Backoff(bd, k) == bd * k

\* One iteration of the retry loop, and on success the decoding that follows
\* the loop.
FetchAttempt(resp) ==
    /\ pc = "attempt"
    /\ trace' = Append(trace, GetEvent(attempt, resp))
    /\ UNCHANGED <<player_name, max_retries, base_delay, attempt>>
    /\ IF IsNotFound(resp)
       THEN /\ result' = Raised(NotFoundError(player_name))
            /\ pc' = "handle"
            /\ UNCHANGED <<last_exc, delay>>
       ELSE IF TransportError(resp) # NoExc
       THEN /\ last_exc' = TransportError(resp)
            /\ IF Exhausted(attempt, max_retries)
               THEN /\ result' = Raised(TransportError(resp))
                    /\ pc' = "handle"
                    /\ UNCHANGED delay
               ELSE /\ delay' = Backoff(base_delay, attempt)
                    /\ pc' = "sleeping"
                    /\ UNCHANGED result
       ELSE /\ result' = DecodeText(resp.text)
            /\ pc' = "handle"
            /\ UNCHANGED <<last_exc, delay>>

\* time.sleep(delay), then the next iteration; when the range is used up the
\* else clause of the loop raises last_exc.
FetchSleep ==
    /\ pc = "sleeping"
    /\ trace' = Append(trace, SleepEvent(attempt, delay))
    /\ IF attempt + 1 <= max_retries
       THEN /\ attempt' = attempt + 1
            /\ pc' = "attempt"
            /\ UNCHANGED result
       ELSE /\ result' = Raised(last_exc)
            /\ pc' = "handle"
            /\ UNCHANGED attempt
    /\ UNCHANGED <<player_name, max_retries, base_delay, last_exc, delay>>
    /\ UNCHANGED run_vars
    /\ UNCHANGED <<list_vars, delta_vars>>

\* ------------------------------------------------------------------------
\* Direct calls of fetch_player_stats
\* ------------------------------------------------------------------------

InitRun ==
    /\ run = 0
    /\ all_player_names = <<>>
    /\ player_names = <<>>
    /\ dropped = {}
    /\ idx = 0
    /\ rows = <<>>
    /\ dropped_store = AbsentFile
    /\ panel_store = AbsentFile
    /\ remote = [n \in NameSet |-> "unknown"]
    /\ remote_changed = FALSE
    /\ network_calls = 0
    /\ log = <<>>
    /\ events = <<>>
    /\ ListNotRun /\ DeltaNotRun

InitFetch ==
    /\ pc = "call"
    /\ player_name = <<>>
    /\ max_retries = 0
    /\ base_delay = 0
    /\ attempt = 0
    /\ last_exc = NoExc
    /\ delay = 0
    /\ result = NoResult
    /\ trace = <<>>
    /\ InitRun

DirectCall ==
    /\ pc = "call"
    /\ \E name \in {NameZez}, mr \in (0 - MaxNegRetries)..MaxRetriesArg, bd \in 1..MaxDelayArg :
          FetchEnter(name, mr, bd)
    /\ UNCHANGED run_vars
    /\ UNCHANGED <<list_vars, delta_vars>>

DirectAttempt ==
    /\ \E resp \in AllResponses : FetchAttempt(resp)
    /\ UNCHANGED run_vars
    /\ UNCHANGED <<list_vars, delta_vars>>

NextFetch == DirectCall \/ DirectAttempt \/ FetchSleep

SpecFetch == InitFetch /\ [][NextFetch]_vars

\* ------------------------------------------------------------------------
\* The dropped-player store: load_dropped_players, append_dropped_player
\* ------------------------------------------------------------------------

HeaderName == <<"p","l","a","y","e","r","_","n","a","m","e">>
NanText == <<"n","a","n">>

\* Texts pandas.read_csv reads as a missing value (its default na_values).
NaValues ==
    {<<>>, <<"N","A">>, <<"N","/","A">>, <<"n","/","a">>, <<"n","a","n">>,
     <<"N","a","N">>, <<"n","u","l","l">>, <<"N","U","L","L">>,
     <<"N","o","n","e">>, <<"<","N","A",">">>, <<"#","N","/","A">>}

QuoteChar == "\""
NeedsQuoting(field) ==
    field = <<>> \/ \E i \in 1..Len(field) : field[i] \in {",", QuoteChar, "\n", "\r"}

RECURSIVE DoubleQuotes(_)
DoubleQuotes(field) ==
    IF field = <<>> THEN <<>>
    ELSE (IF Head(field) = QuoteChar THEN <<QuoteChar, QuoteChar>> ELSE <<Head(field)>>)
         \o DoubleQuotes(Tail(field))

\* DataFrame.to_csv of one string cell (csv.QUOTE_MINIMAL).
WriteField(field) ==
    IF NeedsQuoting(field)
    THEN <<QuoteChar>> \o DoubleQuotes(field) \o <<QuoteChar>>
    ELSE field

RECURSIVE UndoubleQuotes(_)
UndoubleQuotes(s) ==
    IF s = <<>> THEN <<>>
    ELSE IF Len(s) >= 2 /\ s[1] = QuoteChar /\ s[2] = QuoteChar
    THEN <<QuoteChar>> \o UndoubleQuotes(SubSeq(s, 3, Len(s)))
    ELSE <<Head(s)>> \o UndoubleQuotes(Tail(s))

\* The text of a one-field line as read_csv's tokenizer yields it.
ReadField(line) ==
    IF Len(line) >= 2 /\ line[1] = QuoteChar /\ line[Len(line)] = QuoteChar
    THEN UndoubleQuotes(SubSeq(line, 2, Len(line) - 1))
    ELSE line

\* The integer a cell holds for read_csv's type inference, None if it is no
\* integer literal.
CellInt(cell) ==
    LET signed == cell # <<>> /\ Head(cell) \in {"-", "+"}
        body == IF signed THEN Tail(cell) ELSE cell
    IN  IF ~AllDigits(body) THEN None
        ELSE IF signed /\ Head(cell) = "-" THEN Some(0 - DigitsValue(body))
        ELSE Some(DigitsValue(body))

\* The value of a cell that is a float literal of the form <integer>.0.
CellFloat(cell) ==
    IF Len(cell) >= 3 /\ cell[Len(cell) - 1] = "." /\ cell[Len(cell)] = "0"
    THEN CellInt(SubSeq(cell, 1, Len(cell) - 2))
    ELSE None

CellNumber(cell) == IF CellInt(cell) # None THEN CellInt(cell) ELSE CellFloat(cell)

\* Series.astype(str) of the column read_csv infers from the data lines:
\* cells in NaValues are missing; a column whose cells are all integer
\* literals is int64; a column of numeric literals with a float literal or a
\* missing cell is float64; any other column keeps its texts; a missing cell
\* prints as "nan".  (Of the float literals only <integer>.0 is followed, the
\* form str() gives a float64 cell; boolean literals are not followed.)
ReadColumn(lines) ==
    LET cells == [i \in 1..Len(lines) |-> ReadField(lines[i])]
        missing == {i \in 1..Len(cells) : cells[i] \in NaValues}
        present == (1..Len(cells)) \ missing
        numeric == \A i \in present : CellNumber(cells[i]) # None
        integral == missing = {} /\ \A i \in present : CellInt(cells[i]) # None
    IN  [i \in 1..Len(cells) |->
            IF i \in missing THEN NanText
            ELSE IF integral THEN IntToText(CellInt(cells[i])[1])
            ELSE IF numeric THEN IntToText(CellNumber(cells[i])[1]) \o <<".", "0">>
            ELSE cells[i]]

\* load_player_names(csv_path), for the player_name column of a headered
\* players list holding the given data lines.
load_player_names(lines) ==
    LET names == ReadColumn(lines)
        kept == {i \in 1..Len(names) : Strip(names[i]) # <<>>}
        Pick[i \in 0..Len(names)] ==
            IF i = 0 THEN <<>>
            ELSE IF i \in kept THEN Append(Pick[i - 1], Strip(names[i]))
            ELSE Pick[i - 1]
    IN  Pick[Len(names)]

\* load_dropped_players(path)
load_dropped_players(store) ==
    IF ~store.exists THEN {}
    ELSE IF store.lines = <<>> \/ ReadField(Head(store.lines)) # HeaderName THEN {}
    ELSE LET col == ReadColumn(Tail(store.lines))
         IN  {col[i] : i \in 1..Len(col)}

\* append_dropped_player(path, player_name)
append_dropped_player_Noop(store, name) == store
append_dropped_player(store, name) ==
    IF ~store.exists
    THEN [exists |-> TRUE, lines |-> <<WriteField(HeaderName), WriteField(name)>>]
    ELSE [exists |-> TRUE, lines |-> Append(store.lines, WriteField(name))]

\* ------------------------------------------------------------------------
\* build_database and the __main__ run
\* ------------------------------------------------------------------------

\* Column names of a row, in insertion order; <<x, "level">> is f"{x}_level".
SkillColumns ==
    [i \in 1..(3 * Len(SKILLS)) |->
        <<SKILLS[((i - 1) \div 3) + 1], <<"level", "xp", "rank">>[((i - 1) % 3) + 1]>>]
BossColumns ==
    [i \in 1..(2 * Len(BOSSES)) |->
        <<BOSSES[((i - 1) \div 2) + 1], <<"kc", "rank">>[((i - 1) % 2) + 1]>>]
PanelColumns == << <<"player_name", "">>, <<"date", "">> >> \o SkillColumns \o BossColumns

\* stats[skill] raises KeyError for a skill the stats dict has no entry for.
MissingSkills(stats) == {i \in 1..Len(SKILLS) : SKILLS[i] \notin DOMAIN stats.skills}

\* stats["bosses"].get(boss, {"kc": None, "rank": None})
BossGet(stats, boss) ==
    IF boss \in DOMAIN stats.bosses THEN stats.bosses[boss]
    ELSE [rank |-> None, kc |-> None]

\* The row dict of one player, as the values of PanelColumns in order.
BuildRow(name, today, stats) ==
    <<name, today>>
    \o [i \in 1..(3 * Len(SKILLS)) |-> stats.skills[SkillColumns[i][1]][SkillColumns[i][2]]]
    \o [i \in 1..(2 * Len(BOSSES)) |-> BossGet(stats, BossColumns[i][1])[BossColumns[i][2]]]

\* What the except clauses of build_database do with what the fetch raised:
\* "dropped" (append to the dropped store), or "skipped".
Classify(e) ==
    IF IsValueError(e) /\ Contains(e.msg, NotOnHiscores) THEN "dropped" ELSE "skipped"

\* df.to_csv(output_path, index=False, mode="a", header=not file_exists): the
\* header line holds the columns of the frame, which has none when rows is
\* empty.
HeaderLine(rs) == [kind |-> "header", cells |-> IF rs = <<>> THEN <<>> ELSE PanelColumns]
RowLine(r) == [kind |-> "row", cells |-> r]
AppendPanel_Truncate(store, rs) ==
    [exists |-> TRUE,
     lines |-> <<HeaderLine(rs)>> \o [i \in 1..Len(rs) |-> RowLine(rs[i])]]
AppendPanel(store, rs) ==
    [exists |-> TRUE,
     lines |-> store.lines
               \o (IF store.exists THEN <<>> ELSE <<HeaderLine(rs)>>)
               \o [i \in 1..Len(rs) |-> RowLine(rs[i])]]

RECURSIVE SeqsUpTo(_, _)
SeqsUpTo(S, n) ==
    IF n = 0 THEN {<<>>}
    ELSE LET shorter == SeqsUpTo(S, n - 1)
         IN  shorter \cup {Append(q, x) : q \in shorter, x \in S}

\* The players lists the script may load, and the names they hold.
PlayerLists == {load_player_names(f) : f \in SeqsUpTo(NameSet, MaxCands)}
CandidateNames == UNION {{l[i] : i \in 1..Len(l)} : l \in PlayerLists}

\* player_names = [n for n in all_player_names if n not in dropped]
RECURSIVE Filter(_, _)
Filter(names, excluded) ==
    IF names = <<>> THEN <<>>
    ELSE (IF Head(names) \in excluded THEN <<>> ELSE <<Head(names)>>)
         \o Filter(Tail(names), excluded)

NewLog(store, loaded, cands) ==
    [store_at_start |-> store.lines, loaded |-> loaded, candidates |-> cands,
     fetched |-> <<>>, appended |-> <<>>, outcomes |-> <<>>, returned |-> FALSE]

CurLog == log[Len(log)]
Logged(field, value) == [log EXCEPT ![Len(log)][field] = Append(@, value)]

Init ==
    /\ pc = "idle"
    /\ player_name = <<>>
    /\ max_retries = DefaultMaxRetries
    /\ base_delay = DefaultBaseDelay
    /\ attempt = 0
    /\ last_exc = NoExc
    /\ delay = 0
    /\ result = NoResult
    /\ trace = <<>>
    /\ run = 0
    /\ all_player_names \in PlayerLists
    /\ player_names = <<>>
    /\ dropped = {}
    /\ idx = 0
    /\ rows = <<>>
    /\ dropped_store = AbsentFile
    /\ panel_store = AbsentFile
    /\ remote = [n \in CandidateNames |-> "unknown"]
    /\ remote_changed = FALSE
    /\ network_calls = 0
    /\ log = <<>>
    /\ events = <<>>
    /\ ListNotRun /\ DeltaNotRun

\* __main__ up to the call of build_database: load the dropped set, filter
\* the players list; build_database starts with no rows.
StartRun ==
    /\ pc \in {"idle", "crashed"}
    /\ run < MaxRuns
    /\ run' = run + 1
    /\ dropped' = load_dropped_players(dropped_store)
    /\ player_names' = Filter(all_player_names, dropped')
    /\ idx' = 1
    /\ rows' = <<>>
    /\ events' = <<>>
    /\ network_calls' = 0
    /\ log' = Append(log, NewLog(dropped_store, dropped', player_names'))
    /\ pc' = "loop"
    /\ UNCHANGED <<fetch_vars, all_player_names, dropped_store, panel_store,
                   remote, remote_changed>>
    /\ UNCHANGED <<list_vars, delta_vars>>

\* for name in player_names: stats = fetch_player_stats(name)
LoopFetch ==
    /\ pc = "loop"
    /\ idx <= Len(player_names)
    /\ FetchEnter(player_names[idx], DefaultMaxRetries, DefaultBaseDelay)
    /\ log' = Logged("fetched", player_names[idx])
    /\ events' = Append(events, <<"fetch", idx>>)
    /\ UNCHANGED <<run, all_player_names, player_names, dropped, idx, rows,
                   dropped_store, panel_store, remote, remote_changed,
                   network_calls>>
    /\ UNCHANGED <<list_vars, delta_vars>>

\* return pd.DataFrame(rows)
LoopExit ==
    /\ pc = "loop"
    /\ idx > Len(player_names)
    /\ pc' = "write"
    /\ log' = [log EXCEPT ![Len(log)].returned = TRUE]
    /\ UNCHANGED <<fetch_vars, run, all_player_names, player_names, dropped, idx,
                   rows, dropped_store, panel_store, remote, remote_changed,
                   network_calls, events>>
    /\ UNCHANGED <<list_vars, delta_vars>>

\* requests.get during a run: a transient failure, or the answer the
\* hiscores currently give for the name (fixed at the first answer).
NetworkAttempt ==
    /\ pc = "attempt"
    /\ \/ /\ FetchAttempt(HttpResponse(502, <<>>))
          /\ UNCHANGED remote
       \/ \E kind \in (IF remote[player_name] = "unknown" THEN RemoteKinds
                       ELSE {remote[player_name]}) :
             /\ FetchAttempt(Answer(kind))
             /\ remote' = [remote EXCEPT ![player_name] = kind]
    /\ events' = IF attempt = 1 THEN Append(events, <<"get", idx>>) ELSE events
    /\ network_calls' = network_calls + 1
    /\ UNCHANGED <<run, all_player_names, player_names, dropped, idx, rows,
                   dropped_store, panel_store, remote_changed, log>>
    /\ UNCHANGED <<list_vars, delta_vars>>

FinalStatus == IF trace = <<>> THEN 0 ELSE trace[Len(trace)].resp.status
Outcome(action) ==
    [name |-> player_name, status |-> FinalStatus,
     kind |-> IF FinalStatus \in {200, 404} THEN remote[player_name] ELSE "none",
     action |-> action]

\* The rest of the loop body of build_database: the except clauses, or the
\* row built from the stats returned.  A KeyError of stats[skill] is raised
\* outside the try statement and ends build_database and the script.
Handle ==
    /\ pc = "handle"
    /\ IF result.type = "raise"
       THEN /\ IF Classify(result.exc) = "dropped"
               THEN /\ dropped_store' = append_dropped_player(dropped_store, player_name)
                    /\ log' = [Logged("outcomes", Outcome("dropped")) EXCEPT
                                 ![Len(log)].appended = Append(@, player_name)]
                    /\ events' = Append(events, <<"append", idx>>)
               ELSE /\ log' = Logged("outcomes", Outcome("skipped"))
                    /\ UNCHANGED <<dropped_store, events>>
            /\ idx' = idx + 1
            /\ pc' = "loop"
            /\ UNCHANGED rows
       ELSE IF MissingSkills(result.value) # {}
       THEN /\ pc' = "crashed"
            /\ log' = Logged("outcomes", Outcome("crash"))
            /\ UNCHANGED <<idx, rows, dropped_store, events>>
       ELSE /\ rows' = Append(rows, BuildRow(player_name, run, result.value))
            /\ log' = Logged("outcomes", Outcome("row"))
            /\ idx' = idx + 1
            /\ pc' = "loop"
            /\ UNCHANGED <<dropped_store, events>>
    /\ attempt' = 0
    /\ last_exc' = NoExc
    /\ delay' = 0
    /\ result' = NoResult
    /\ trace' = <<>>
    /\ UNCHANGED <<player_name, max_retries, base_delay, run, all_player_names,
                   player_names, dropped, panel_store, remote, remote_changed,
                   network_calls>>
    /\ UNCHANGED <<list_vars, delta_vars>>

\* __main__, step 3: append the rows of the run to the panel store.
WritePanel ==
    /\ pc = "write"
    /\ panel_store' = AppendPanel(panel_store, rows)
    /\ pc' = "idle"
    /\ UNCHANGED <<fetch_vars, run, all_player_names, player_names, dropped, idx,
                   rows, dropped_store, remote, remote_changed,
                   network_calls, log, events>>
    /\ UNCHANGED <<list_vars, delta_vars>>

\* Between two runs the hiscores may change what they answer for a name
\* (one change is followed).
RemoteChange ==
    /\ pc \in {"idle", "crashed"}
    /\ run >= 1 /\ run < MaxRuns
    /\ ~remote_changed
    /\ \E n \in CandidateNames :
          /\ remote[n] # "unknown"
          /\ remote' = [remote EXCEPT ![n] = "unknown"]
    /\ remote_changed' = TRUE
    /\ UNCHANGED <<pc, fetch_vars, run, all_player_names, player_names, dropped, idx,
                   rows, dropped_store, panel_store, network_calls, log, events>>
    /\ UNCHANGED <<list_vars, delta_vars>>

Next ==
    \/ StartRun
    \/ LoopFetch
    \/ LoopExit
    \/ NetworkAttempt
    \/ FetchSleep
    \/ Handle
    \/ WritePanel
    \/ RemoteChange

Spec == Init /\ [][Next]_vars

\* ------------------------------------------------------------------------
\* Direct calls of load_dropped_players and append_dropped_player
\* ------------------------------------------------------------------------

StoreNames == NameSet \cup {<<"7">>}

InitStore ==
    /\ pc = "store"
    /\ player_name = <<>>
    /\ max_retries = 0
    /\ base_delay = 0
    /\ attempt = 0
    /\ last_exc = NoExc
    /\ delay = 0
    /\ result = NoResult
    /\ trace = <<>>
    /\ InitRun

\* append_dropped_player(DROPPED_PLAYERS_PATH, name); events lists the names
\* of the calls made.
StoreAppend ==
    /\ pc \in {"store", "loaded"}
    /\ Len(events) < MaxAppends
    /\ \E name \in StoreNames :
          /\ dropped_store' = append_dropped_player(dropped_store, name)
          /\ events' = Append(events, name)
    /\ pc' = "store"
    /\ UNCHANGED <<fetch_vars, run, all_player_names, player_names, dropped, idx,
                   rows, panel_store, remote, remote_changed,
                   network_calls, log>>
    /\ UNCHANGED <<list_vars, delta_vars>>

\* dropped = load_dropped_players(DROPPED_PLAYERS_PATH)
StoreLoad ==
    /\ pc = "store"
    /\ dropped' = load_dropped_players(dropped_store)
    /\ pc' = "loaded"
    /\ UNCHANGED <<fetch_vars, run, all_player_names, player_names, idx, rows,
                   dropped_store, panel_store, remote, remote_changed,
                   network_calls, log, events>>
    /\ UNCHANGED <<list_vars, delta_vars>>

NextStore == StoreAppend \/ StoreLoad

SpecStore == InitStore /\ [][NextStore]_vars

\* ------------------------------------------------------------------------
\* One direct call of fetch_player_stats, or one run of the script, with
\* every step of the program eventually taken
\* ------------------------------------------------------------------------

\* run = 0 throughout a direct call; a run of the script sets it to 1.
InitLive == InitFetch \/ Init
LiveAttempt == run = 0 /\ DirectAttempt
LiveStartRun == run = 0 /\ StartRun
LiveNetworkAttempt == run >= 1 /\ NetworkAttempt
LiveHandle == run >= 1 /\ Handle

NextLive ==
    \/ DirectCall
    \/ LiveAttempt
    \/ FetchSleep
    \/ LiveStartRun
    \/ LoopFetch
    \/ LoopExit
    \/ LiveNetworkAttempt
    \/ LiveHandle
    \/ WritePanel

\* requests.get has a timeout and time.sleep returns: no step blocks for ever.
SpecLive == InitLive /\ [][NextLive]_vars /\ WF_vars(NextLive)

\* ------------------------------------------------------------------------
\* The name-discovery script (src/scripts/players_list.py)
\* ------------------------------------------------------------------------

SKILL_TABLES ==
    <<"overall", "attack", "defence", "strength", "hitpoints", "ranged",
      "prayer", "magic", "cooking", "woodcutting", "fletching", "fishing",
      "firemaking", "crafting", "smithing", "mining", "herblore", "agility",
      "thieving", "slayer", "farming", "runecraft", "hunter", "construction">>
TARGET_PER_SKILL == 2
max_attempts == 100

\* Number of entries of SKILL_TABLES the main loop is followed through.
NumSkillTables == Min(Len(SKILL_TABLES), MaxSkillTables)

ListColumns == <<"player_name", "source_skill">>
NameRow(name, skill) == [player_name |-> WriteField(name), source_skill |-> skill]

\* load_existing_names(csv_path): <<>> when the file has no player_name
\* column (the ValueError), else the set holding every non-empty stripped
\* player_name cell.
load_existing_names(file) ==
    IF ~file.exists THEN Some({})
    ELSE IF \A i \in 1..Len(file.header) : file.header[i] # "player_name" THEN None
    ELSE Some({Strip(ReadField(file.rows[i].player_name)) : i \in 1..Len(file.rows)}
              \ {<<>>})

\* fetch_page_names(table_index, page): the stripped text of the link of
\* every table row, rows with an empty text left out.
fetch_page_names(links) ==
    LET texts == [i \in 1..Len(links) |-> Strip(links[i])]
    IN  SelectSeq(texts, LAMBDA t : t # <<>>)

\* random.shuffle(names_on_page): any order of the names.
Shuffles(names) ==
    {[i \in 1..Len(names) |-> names[f[i]]] : f \in Permutations(1..Len(names))}

\* if name not in existing_names and name not in collected
IsNewName_NotCollected(name, existing, got) == name \notin existing
IsNewName(name, existing, got) == name \notin existing /\ name \notin Range(got)

\* for name in names_on_page: ... collected.append(name); break when
\* len(collected) >= target.
RECURSIVE AddNames(_, _, _, _)
AddNames(got, names, existing, target) ==
    IF names = <<>> THEN got
    ELSE IF IsNewName(Head(names), existing, got)
    THEN LET more == Append(got, Head(names))
         IN  IF Len(more) >= target THEN more
             ELSE AddNames(more, Tail(names), existing, target)
    ELSE AddNames(got, Tail(names), existing, target)

\* append_names_to_csv(csv_path, new_rows, existing)
append_names_to_csv(file, new_rows, existing) ==
    IF existing
    THEN [file EXCEPT !.rows = @ \o new_rows]
    ELSE [exists |-> TRUE, header |-> ListColumns, rows |-> new_rows]

\* Link texts of the rows of a hiscore page, and what a page request gives:
\* an exception, or a page of rows.
RawLinks == {NameZez, <<" ">> \o NameZez \o <<" ">>, Name007, NameNA, <<>>}
PageResponses ==
    {[error |-> TRUE, links |-> <<>>]}
    \cup {[error |-> FALSE, links |-> l] : l \in SeqsUpTo(RawLinks, MaxPageLen)}

\* The names file before the script runs: absent, or written earlier.
NamesFiles ==
    {[exists |-> FALSE, header |-> <<>>, rows |-> <<>>]}
    \cup {[exists |-> TRUE, header |-> h, rows |-> <<>>] : h \in {ListColumns, <<"name">>}}
    \cup {[exists |-> TRUE, header |-> ListColumns, rows |-> <<NameRow(n, SKILL_TABLES[1])>>] :
            n \in {NameZez, <<" ">> \o NameZez}}

InitList ==
    /\ pc = "list_idle"
    /\ player_name = <<>>
    /\ max_retries = 0
    /\ base_delay = 0
    /\ attempt = 0
    /\ last_exc = NoExc
    /\ delay = 0
    /\ result = NoResult
    /\ trace = <<>>
    /\ run = 0
    /\ all_player_names = <<>>
    /\ player_names = <<>>
    /\ dropped = {}
    /\ idx = 0
    /\ rows = <<>>
    /\ dropped_store = AbsentFile
    /\ panel_store = AbsentFile
    /\ remote = [n \in NameSet |-> "unknown"]
    /\ remote_changed = FALSE
    /\ network_calls = 0
    /\ log = <<>>
    /\ events = <<>>
    /\ names_file \in NamesFiles
    /\ existing_names = {}
    /\ skill_idx = 0
    /\ collected = <<>>
    /\ attempts = 0
    /\ page_fetches = 0
    /\ all_new_rows = <<>>
    /\ sample_log = <<>>
    /\ DeltaNotRun

\* __main__, step 1, and the first call of sample_names_for_skill.
ListStart ==
    /\ pc = "list_idle"
    /\ LET loaded == load_existing_names(names_file)
       IN  IF loaded = None
           THEN /\ pc' = "list_failed"
                /\ UNCHANGED <<existing_names, skill_idx>>
           ELSE /\ pc' = "sample"
                /\ existing_names' = loaded[1]
                /\ skill_idx' = 1
    /\ UNCHANGED <<names_file, collected, attempts, page_fetches, all_new_rows,
                   sample_log>>
    /\ UNCHANGED <<fetch_vars, run_vars, delta_vars>>

\* One iteration of the while loop of sample_names_for_skill.
SampleAttempt ==
    /\ pc = "sample"
    /\ Len(collected) < TARGET_PER_SKILL /\ attempts < max_attempts
    /\ attempts' = attempts + 1
    /\ page_fetches' = page_fetches + 1
    /\ \E resp \in PageResponses :
          IF resp.error \/ fetch_page_names(resp.links) = <<>>
          THEN UNCHANGED collected
          ELSE \E names_on_page \in Shuffles(fetch_page_names(resp.links)) :
                  collected' = AddNames(collected, names_on_page, existing_names,
                                        TARGET_PER_SKILL)
    /\ UNCHANGED <<pc, names_file, existing_names, skill_idx, all_new_rows, sample_log>>
    /\ UNCHANGED <<fetch_vars, run_vars, delta_vars>>

\* return collected, and the rest of the body of the loop over SKILL_TABLES:
\* existing_names and all_new_rows take the new names; then the next skill
\* is sampled, or the loop ends.
SampleReturn ==
    /\ pc = "sample"
    /\ ~(Len(collected) < TARGET_PER_SKILL /\ attempts < max_attempts)
    /\ sample_log' = Append(sample_log,
                            [existing |-> existing_names, names |-> collected])
    /\ existing_names' = existing_names \cup Range(collected)
    /\ all_new_rows' = all_new_rows
                       \o [i \in 1..Len(collected) |->
                             NameRow(collected[i], SKILL_TABLES[skill_idx])]
    /\ collected' = <<>>
    /\ attempts' = 0
    /\ page_fetches' = 0
    /\ IF skill_idx < NumSkillTables
       THEN skill_idx' = skill_idx + 1 /\ pc' = "sample"
       ELSE pc' = "list_write" /\ UNCHANGED skill_idx
    /\ UNCHANGED names_file
    /\ UNCHANGED <<fetch_vars, run_vars, delta_vars>>

\* __main__, step 3.
ListWrite ==
    /\ pc = "list_write"
    /\ names_file' = append_names_to_csv(names_file, all_new_rows, names_file.exists)
    /\ pc' = "list_done"
    /\ UNCHANGED <<existing_names, skill_idx, collected, attempts, page_fetches,
                   all_new_rows, sample_log>>
    /\ UNCHANGED <<fetch_vars, run_vars, delta_vars>>

NextList == ListStart \/ SampleAttempt \/ SampleReturn \/ ListWrite

\* requests.get has a timeout and time.sleep returns: no step blocks for ever.
SpecList == InitList /\ [][NextList]_vars /\ WF_vars(NextList)

\* ------------------------------------------------------------------------
\* The delta script (src/scripts/vorkath_deltas.py)
\* ------------------------------------------------------------------------

\* A date string is held as its day (of October 2023), its hour and whether
\* it ends in "Z"; the string "" has empty set.  TARGET_DATE_STR is midnight
\* of day 1.
DateStr(day, hour, z) == [empty |-> FALSE, day |-> day, hour |-> hour, z |-> z]
TARGET_DATE == DateStr(1, 0, FALSE)

\* datetime.fromisoformat(d_str.replace("Z", "")), in seconds.
Seconds(d_str) == d_str.day * 86400 + d_str.hour * 3600

\* if best is None or delta < best_delta
Closer_OrEqual(delta, best_delta) == delta <= best_delta
Closer(delta, best_delta) == delta < best_delta

\* for p in points: the point kept as best at the end of the loop, None if
\* there is none.
RECURSIVE ClosestPoint(_, _, _, _)
ClosestPoint(points, target, best, best_delta) ==
    IF points = <<>> THEN best
    ELSE LET p == Head(points)
         IN  IF p.date = None \/ p.date[1].empty
             THEN ClosestPoint(Tail(points), target, best, best_delta)
             ELSE LET d == Seconds(p.date[1])
                      delta == IF d < target THEN target - d ELSE d - target
                  IN  IF best = None \/ Closer(delta, best_delta)
                      THEN ClosestPoint(Tail(points), target, Some(p), delta)
                      ELSE ClosestPoint(Tail(points), target, best, best_delta)

\* if kc is None or kc < 0: kc = None
NormKc(kc) == IF kc = None \/ kc[1] < 0 THEN None ELSE kc

\* get_vorkath_kc_on_date(username, target_date, window_days): (kc, date).
\* Status 0 stands for an exception of requests.get.
get_vorkath_kc_on_date(resp, target) ==
    IF resp.status # 200 \/ resp.points = <<>> THEN <<None, None>>
    ELSE LET best == ClosestPoint(resp.points, Seconds(target), None, 0)
         IN  IF best = None THEN <<None, None>>
             ELSE <<NormKc(best[1].value), best[1].date>>

\* get_current_vorkath_kc(username): (kc, created_at).
get_current_vorkath_kc(resp) ==
    IF resp.status # 200 \/ ~resp.snapshot THEN <<None, None>>
    ELSE IF ~resp.vorkath THEN <<None, Some("now")>>
    ELSE <<NormKc(resp.kills), Some("now")>>

\* delta = current_kc - past_kc if both are not None, else None
DeltaKc(past_kc, current_kc) ==
    IF past_kc # None /\ current_kc # None THEN Some(current_kc[1] - past_kc[1])
    ELSE None

\* What the timeline request is answered with.
TimelineResponses ==
    LET EmptyDate == [empty |-> TRUE, day |-> 0, hour |-> 0, z |-> FALSE]
        Points == {[date |-> d, value |-> v] :
                      d \in {None, Some(EmptyDate), Some(DateStr(0, 12, TRUE)),
                             Some(DateStr(1, 12, TRUE)), Some(DateStr(2, 0, FALSE))},
                      v \in {None, Some(-1), Some(0), Some(4), Some(9)}}
    IN  {[status |-> s, points |-> <<>>] : s \in {0, 404, 500}}
        \cup {[status |-> 200, points |-> ps] : ps \in SeqsUpTo(Points, MaxPoints)}

InitDelta ==
    /\ pc = "delta_past"
    /\ player_name = <<>>
    /\ max_retries = 0
    /\ base_delay = 0
    /\ attempt = 0
    /\ last_exc = NoExc
    /\ delay = 0
    /\ result = NoResult
    /\ trace = <<>>
    /\ run = 0
    /\ all_player_names = <<>>
    /\ player_names = <<>>
    /\ dropped = {}
    /\ idx = 0
    /\ rows = <<>>
    /\ dropped_store = AbsentFile
    /\ panel_store = AbsentFile
    /\ remote = [n \in NameSet |-> "unknown"]
    /\ remote_changed = FALSE
    /\ network_calls = 0
    /\ log = <<>>
    /\ events = <<>>
    /\ ListNotRun
    /\ DeltaNotRun

\* main, loop body, step 1
DeltaPast ==
    /\ pc = "delta_past"
    /\ target_date' = TARGET_DATE
    /\ \E resp \in TimelineResponses :
          /\ timeline_resp' = resp
          /\ past' = get_vorkath_kc_on_date(resp, TARGET_DATE)
    /\ pc' = "delta_current"
    /\ UNCHANGED <<player_resp, current, delta_rows>>
    /\ UNCHANGED <<fetch_vars, run_vars, list_vars>>

\* main, loop body, step 2
DeltaCurrent ==
    /\ pc = "delta_current"
    /\ \E s \in {0, 404, 200}, shape \in {"none", "no_vorkath", "vorkath"},
          k \in {None, Some(-1), Some(0), Some(5)} :
          /\ s # 200 => shape = "none"
          /\ shape # "vorkath" => k = None
          /\ player_resp' = [status |-> s, snapshot |-> shape # "none",
                             vorkath |-> shape = "vorkath", kills |-> k]
          /\ current' = get_current_vorkath_kc(player_resp')
    /\ pc' = "delta_row"
    /\ UNCHANGED <<target_date, timeline_resp, past, delta_rows>>
    /\ UNCHANGED <<fetch_vars, run_vars, list_vars>>

\* main, loop body, step 3 and rows.append
DeltaRow ==
    /\ pc = "delta_row"
    /\ delta_rows' = Append(delta_rows,
                            [past_kc |-> past[1], past_date |-> past[2],
                             current_kc |-> current[1], current_date |-> current[2],
                             delta_kc |-> DeltaKc(past[1], current[1])])
    /\ pc' = "delta_done"
    /\ UNCHANGED <<target_date, timeline_resp, player_resp, past, current>>
    /\ UNCHANGED <<fetch_vars, run_vars, list_vars>>

NextDelta == DeltaPast \/ DeltaCurrent \/ DeltaRow

SpecDelta == InitDelta /\ [][NextDelta]_vars

\* ------------------------------------------------------------------------

\* Properties of fetch_player_stats (SpecFetch)
\* ------------------------------------------------------------------------

GetIndexes == {i \in 1..Len(trace) : trace[i].ev = "get"}
SleepIndexes == {i \in 1..Len(trace) : trace[i].ev = "sleep"}
NetworkCalls == Cardinality(GetIndexes)
SleepCount == Cardinality(SleepIndexes)
FetchDone == pc = "handle"
LastEvent == trace[Len(trace)]

\* The response was taken as a success: neither a 404 nor an error raised.
Succeeded(resp) == ~(resp.kind = "http" /\ resp.status = 404) /\ TransportError(resp) = NoExc
Transient(resp) == ~(resp.kind = "http" /\ resp.status = 404) /\ TransportError(resp) # NoExc

IsPermanentAbsence(r) ==
    r.type = "raise" /\ r.exc.type = "ValueError" /\ Contains(r.exc.msg, NotOnHiscores)

\* C3: a 404 on any attempt k <= max_retries makes fetch_player_stats raise
\* the permanent-absence error at once: the 404 is the last event of the call
\* (no network call and no sleep follows it), and a 404 on the first attempt
\* leaves exactly one network call and no sleep.
C3_NotFoundRaisesAtOnce ==
    \A i \in GetIndexes :
        (trace[i].resp.kind = "http" /\ trace[i].resp.status = 404) =>
            /\ max_retries >= 1 /\ trace[i].attempt <= max_retries
            /\ i = Len(trace)
            /\ FetchDone
            /\ result = Raised(NotFoundError(player_name))
            /\ IsPermanentAbsence(result)
            /\ (trace[i].attempt = 1 => NetworkCalls = 1 /\ SleepCount = 0)

C3_Witness ==
    /\ FetchDone /\ Len(trace) = 5
    /\ LastEvent.ev = "get" /\ LastEvent.attempt = 3 /\ LastEvent.resp.status = 404
    /\ IsPermanentAbsence(result)

\* C4: when attempts 1..k-1 fail transiently and attempt k succeeds, the call
\* consists of exactly k network calls and k-1 sleeps, the sleep after failed
\* attempt i lasting base_delay*i and lying between attempts i and i+1, and
\* the result is the decoding of the payload of attempt k.
C4_RetryThenSuccess ==
    (FetchDone /\ trace # <<>> /\ LastEvent.ev = "get" /\ Succeeded(LastEvent.resp)) =>
        LET k == NetworkCalls
        IN  /\ k >= 1 /\ k <= max_retries
            /\ Len(trace) = 2 * k - 1
            /\ SleepCount = k - 1
            /\ \A i \in 1..k : trace[2 * i - 1].ev = "get" /\ trace[2 * i - 1].attempt = i
            /\ \A i \in 1..(k - 1) :
                  /\ Transient(trace[2 * i - 1].resp)
                  /\ trace[2 * i].ev = "sleep"
                  /\ trace[2 * i].delay = base_delay * i
            /\ result = Decode(trace[2 * k - 1].resp.text)

C4_Witness ==
    /\ FetchDone /\ NetworkCalls = 3 /\ SleepCount = 2 /\ base_delay = 2
    /\ Succeeded(LastEvent.resp) /\ result.type = "return"
    /\ trace[2].delay = 2 /\ trace[4].delay = 4

\* C5: when all max_retries >= 1 attempts fail transiently, the call makes
\* exactly max_retries network calls and max_retries-1 sleeps, none after the
\* final attempt, and raises the error of the final attempt.
C5_ExhaustedRaisesLast ==
    (/\ FetchDone /\ max_retries >= 1
     /\ \A i \in GetIndexes : Transient(trace[i].resp)) =>
        /\ NetworkCalls = max_retries
        /\ SleepCount = max_retries - 1
        /\ LastEvent.ev = "get" /\ LastEvent.attempt = max_retries
        /\ result = Raised(TransportError(LastEvent.resp))
        /\ IsRequestException(result.exc)
        /\ ~IsPermanentAbsence(result)

C5_Witness ==
    /\ FetchDone /\ max_retries = 3 /\ NetworkCalls = 3
    /\ trace[1].resp = HttpResponse(500, <<>>)
    /\ LastEvent.resp = NetworkError("ConnectionError")
    /\ result = Raised(Exc("ConnectionError", <<>>))

\* The skill block of a payload parses: at least len(SKILLS) rows, the first
\* len(SKILLS) of them with exactly 3 fields, every one an integer.
SkillBlockParses(text) ==
    LET rs == CsvRows(text)
    IN  /\ Len(rs) >= Len(SKILLS)
        /\ \A i \in 1..Len(SKILLS) :
              /\ Len(rs[i]) = 3
              /\ \A f \in 1..3 : ParseInt(rs[i][f]) # None

\* C6: decoding a payload raises exactly when its skill block does not parse
\* (too few rows, a row of the block without exactly 3 fields, a field that
\* is no integer), and otherwise returns stats with an entry for every skill.
C6_DecodeRaisesIffMalformed ==
    (FetchDone /\ trace # <<>> /\ LastEvent.ev = "get" /\ Succeeded(LastEvent.resp)) =>
        /\ (result.type = "raise") <=> ~SkillBlockParses(LastEvent.resp.text)
        /\ result.type = "return" => DOMAIN result.value.skills = SkillNames

\* ------------------------------------------------------------------------
\* The call ended on a response taken as a success, whose body was decoded.
DecodedLast == FetchDone /\ trace # <<>> /\ LastEvent.ev = "get" /\ Succeeded(LastEvent.resp)
\* The activity rows of a payload: the rows after the skill block.
ActivityRows(text) ==
    LET rs == CsvRows(text) IN SubSeq(rs, Len(SKILLS) + 1, Len(rs))
NonNegative(v) == v = None \/ v[1] >= 0
\* The boss cells of the row build_database builds from the stats.
BossCells(stats) ==
    LET r == BuildRow(player_name, 1, stats)
    IN  {r[i] : i \in (Len(r) - 2 * Len(BOSSES) + 1)..Len(r)}

\* C12: in every decoded boss entry rank and kill count are None or a
\* non-negative integer: a raw negative rank decodes to None, a raw negative
\* kill count to 0, and no boss cell of the row built from the stats is
\* negative.
C12_BossValuesNonNegative ==
    (DecodedLast /\ result.type = "return") =>
        LET stats == result.value
            raw == BossRows(CsvRows(LastEvent.resp.text))
        IN  /\ \A b \in DOMAIN stats.bosses :
                  LET row == raw[BossIndex[b]]
                  IN  /\ NonNegative(stats.bosses[b].rank)
                      /\ NonNegative(stats.bosses[b].kc)
                      /\ Len(row) >= 2 =>
                            /\ (ParseInt(row[1]) # None /\ ParseInt(row[1])[1] < 0)
                                  => stats.bosses[b].rank = None
                            /\ (ParseInt(row[2]) # None /\ ParseInt(row[2])[1] < 0)
                                  => stats.bosses[b].kc = Some(0)
            /\ MissingSkills(stats) = {} => \A v \in BossCells(stats) : NonNegative(v)

C12_Witness ==
    /\ DecodedLast /\ result.type = "return"
    /\ Len(ActivityRows(LastEvent.resp.text)) = Len(BOSSES)
    /\ BossRows(CsvRows(LastEvent.resp.text))[Len(BOSSES)] = << <<"-","1">>, <<"-","1">> >>
    /\ result.value.bosses[BOSSES[Len(BOSSES)]] = [rank |-> None, kc |-> Some(0)]
    /\ BossRows(CsvRows(LastEvent.resp.text))[1] = GoodBossRow
    /\ result.value.bosses[BOSSES[1]] = [rank |-> Some(4), kc |-> Some(10)]

NoBossEntry == [rank |-> None, kc |-> None]

\* C13: a payload whose skill block parses and which has fewer than
\* len(BOSSES) activity rows is decoded without error, and every boss of
\* BOSSES then has the entry {rank: None, kc: None}: the stats hold no other
\* entry for it, and every boss cell of the row built from them is None.
C13_FewActivityRowsAllNone ==
    (/\ DecodedLast
     /\ SkillBlockParses(LastEvent.resp.text)
     /\ Len(ActivityRows(LastEvent.resp.text)) < Len(BOSSES)) =>
        /\ result.type = "return"
        /\ \A b \in BossNames : BossGet(result.value, b) = NoBossEntry
        /\ BossCells(result.value) = {None}

C13_Witness ==
    /\ DecodedLast /\ result.type = "return"
    /\ Len(ActivityRows(LastEvent.resp.text)) = Len(BOSSES) - 1
    /\ ActivityRows(LastEvent.resp.text)[1] = GoodBossRow
    /\ \A i \in 1..Len(BOSSES) : BossGet(result.value, BOSSES[i]) = NoBossEntry

\* C15: a response whose status is neither 200 nor 404 is a transient
\* failure: the attempt is followed by a sleep and a retry or, on the last
\* attempt, by the transport error being raised; its body is never decoded.
C15_OtherStatusIsTransient ==
    \A i \in GetIndexes :
        (trace[i].resp.kind = "http" /\ trace[i].resp.status \notin {200, 404}) =>
            /\ Transient(trace[i].resp)
            /\ i < Len(trace) => trace[i + 1].ev = "sleep"
            /\ i = Len(trace) =>
                  \/ pc = "sleeping"
                  \/ /\ FetchDone /\ trace[i].attempt = max_retries
                     /\ result = Raised(TransportError(trace[i].resp))
                     /\ IsRequestException(result.exc)

\* C17: with at least len(BOSSES) activity rows the boss block is the last
\* len(BOSSES) of them: boss i is decoded from activity row n - len(BOSSES) + i
\* of the n activity rows, and the rows before the block leave no trace in
\* the stats.
C17_BossBlockRightAligned ==
    (/\ DecodedLast /\ result.type = "return"
     /\ Len(ActivityRows(LastEvent.resp.text)) >= Len(BOSSES)) =>
        LET activity_rows == ActivityRows(LastEvent.resp.text)
            n == Len(activity_rows)
        IN  /\ DOMAIN result.value.bosses = BossNames
            /\ \A i \in 1..Len(BOSSES) :
                  result.value.bosses[BOSSES[i]]
                     = BossEntry(activity_rows[n - Len(BOSSES) + i])

\* Two extra rows lead the activity rows; every boss holds the line number of
\* its own row, the first boss that of the third activity row.
C17_Witness ==
    /\ DecodedLast /\ result.type = "return"
    /\ LastEvent.resp.text = ExtraText(MaxExtraRows)
    /\ Len(ActivityRows(LastEvent.resp.text)) = Len(BOSSES) + MaxExtraRows
    /\ \A i \in 1..Len(BOSSES) :
          result.value.bosses[BOSSES[i]] =
             [rank |-> Some(Len(SKILLS) + MaxExtraRows + i),
              kc |-> Some(Len(SKILLS) + MaxExtraRows + i)]

\* What one field of a boss row decodes to on its own.
RankOf(field) ==
    LET v == ParseInt(field) IN IF v # None /\ v[1] < 0 THEN None ELSE v
KillCountOf(field) ==
    LET v == ParseInt(field) IN IF v # None /\ v[1] < 0 THEN Some(0) ELSE v

\* C18: in a boss row of at least 2 fields rank and kill count are decoded
\* each from its own field: a non-integer rank gives rank None and leaves the
\* kill count decoded and normalised, a non-integer kill count gives kill
\* count None and leaves the rank decoded; a boss row of fewer than 2 fields
\* gives {rank: None, kc: None}; no boss row makes the decoding raise.
C18_BossFieldsIndependent ==
    (/\ DecodedLast /\ SkillBlockParses(LastEvent.resp.text)
     /\ Len(ActivityRows(LastEvent.resp.text)) >= Len(BOSSES)) =>
        /\ result.type = "return"
        /\ \A i \in 1..Len(BOSSES) :
              LET row == BossRows(CsvRows(LastEvent.resp.text))[i]
                  e == result.value.bosses[BOSSES[i]]
              IN  /\ Len(row) < 2 => e = NoBossEntry
                  /\ Len(row) >= 2 =>
                        /\ e.rank = RankOf(row[1])
                        /\ e.kc = KillCountOf(row[2])
                        /\ ParseInt(row[1]) = None => e.rank = None
                        /\ ParseInt(row[2]) = None => e.kc = None

C18_Witness ==
    /\ DecodedLast /\ result.type = "return"
    /\ LastEvent.resp.text = MixedBossText
    /\ result.value.bosses[BOSSES[1]] = [rank |-> None, kc |-> Some(0)]
    /\ result.value.bosses[BOSSES[2]] = [rank |-> Some(8), kc |-> None]
    /\ result.value.bosses[BOSSES[3]] = NoBossEntry
    /\ result.value.bosses[BOSSES[4]] = NoBossEntry
    /\ result.value.bosses[BOSSES[5]] = [rank |-> Some(4), kc |-> Some(10)]

\* C23: a call with max_retries <= 0 makes no network call and no sleep and
\* raises a RuntimeError, which is neither the permanent-absence error nor a
\* transport error; the except clauses of build_database take such an error
\* as a skip (no row, no append to the dropped store).
C23_NoAttemptsRaisesRuntimeError ==
    (pc \in {"attempt", "sleeping", "handle"} /\ max_retries <= 0) =>
        /\ FetchDone
        /\ trace = <<>> /\ NetworkCalls = 0 /\ SleepCount = 0
        /\ result = Raised(Exc("RuntimeError", MsgUnexpected \o player_name))
        /\ ~IsPermanentAbsence(result)
        /\ ~IsRequestException(result.exc)
        /\ ~IsValueError(result.exc)
        /\ Classify(result.exc) = "skipped"

C23_Witness ==
    /\ FetchDone /\ max_retries = 0 - MaxNegRetries /\ player_name = NameZez
    /\ trace = <<>>
    /\ result.type = "raise" /\ result.exc.type = "RuntimeError"

\* Properties of a run (Spec)
\* ------------------------------------------------------------------------

AllOutcomes == UNION {Range(log[r].outcomes) : r \in 1..Len(log)}

\* C1: whatever the per-player outcomes, build_database never aborts: it
\* returns normally and has then called fetch_player_stats for every
\* candidate, in list order.
C1_BatchNeverAborts ==
    /\ pc # "crashed"
    /\ \A r \in 1..Len(log) : log[r].returned => log[r].fetched = log[r].candidates

\* C2: a name is appended to the dropped store if and only if the player's
\* fetch ended with a 404 response; exhausted retries and decoding failures,
\* whatever the payload holds, append nothing.
C2_DroppedIffNotFound ==
    /\ \A o \in AllOutcomes : (o.action = "dropped") <=> (o.status = 404)
    /\ \A r \in 1..Len(log) :
          Len(log[r].appended) =
            Cardinality({i \in 1..Len(log[r].outcomes) : log[r].outcomes[i].status = 404})

\* A row of the skill block does not have exactly 3 fields.
HasWrongCountSkillRow(text) ==
    LET rs == CsvRows(text)
    IN  \E i \in 1..Min(Len(rs), Len(SKILLS)) : Len(rs[i]) # 3

\* C7: a 200 payload with a skill row of a wrong field count ends as a
\* decoding failure, told apart by build_database from a transport failure
\* and from a permanent absence, and is not retried: the successful response
\* is the last event of the fetch.
C7_WrongFieldCountIsDecodingFailure ==
    (/\ pc = "handle" /\ trace # <<>>
     /\ LastEvent.resp.status = 200
     /\ HasWrongCountSkillRow(LastEvent.resp.text)) =>
        /\ LastEvent.ev = "get"
        /\ result.type = "raise"
        /\ IsValueError(result.exc)
        /\ ~IsRequestException(result.exc)
        /\ ~IsPermanentAbsence(result)
        /\ Classify(result.exc) = "skipped"

\* Every fetch so far ended in a row, a 404 or exhausted retries.
NoDecodingFailure == \A o \in AllOutcomes : o.kind \in {"absent", "good", "none"}

\* C8: with the hiscores unchanged, the second run over the same players list
\* processes a subset of the first run's candidates, fetches no player the
\* first run recorded as dropped, and appends no name the store already held
\* when it started.  (Stated for the runs without a decoding failure, whose
\* drops all come from a 404.)
C8_IdempotentResumption ==
    (Len(log) >= 2 /\ ~remote_changed /\ NoDecodingFailure) =>
        /\ Range(log[2].candidates) \subseteq Range(log[1].candidates)
        /\ \A n \in Range(log[1].appended) : n \notin Range(log[2].fetched)
        /\ \A n \in Range(log[2].appended) :
              WriteField(n) \notin Range(Tail(log[2].store_at_start))

\* C9: the append for candidate i is complete before the first network call
\* for a later candidate, and at every point of the run the store holds the
\* name of every candidate resolved so far whose fetch ended with a 404.
C9_AppendBeforeNextFetch ==
    Len(log) >= 1 =>
        LET done == CurLog.outcomes
        IN  /\ \A p \in 1..Len(events) :
                  events[p][1] = "get" =>
                    \A i \in 1..(events[p][2] - 1) :
                        done[i].status = 404 =>
                          \E q \in 1..(p - 1) : events[q] = <<"append", i>>
            /\ \A i \in 1..Len(done) :
                  done[i].status = 404 =>
                    /\ dropped_store.exists
                    /\ WriteField(done[i].name) \in Range(Tail(dropped_store.lines))

C9_Witness ==
    /\ pc = "handle" /\ Len(events) = 5
    /\ events[3] = <<"append", 1>> /\ events[5] = <<"get", 2>>
    /\ CurLog.outcomes[1].status = 404
    /\ dropped_store.lines = <<HeaderName, CurLog.outcomes[1].name>>

\* ------------------------------------------------------------------------
IsPrefix(p, q) == Len(p) <= Len(q) /\ SubSeq(q, 1, Len(p)) = p
\* The name lines of the dropped store, below its header line.
StoredLines(lines) == IF lines = <<>> THEN {} ELSE Range(Tail(lines))

\* C11: the dropped store is append-only across runs: what it held at the
\* start of any run is a prefix of what it held at the start of every later
\* run and of what it holds now, and a name whose line the store holds at the
\* start of a run is not among the candidates of that run, whatever the
\* hiscores answer for it by then.  (Stated for the runs without a decoding
\* failure, whose drops all come from a 404.)
C11_DroppedStoreAppendOnly ==
    /\ \A r \in 1..Len(log) :
          /\ IsPrefix(log[r].store_at_start, dropped_store.lines)
          /\ \A s \in (r + 1)..Len(log) :
                IsPrefix(log[r].store_at_start, log[s].store_at_start)
    /\ NoDecodingFailure =>
          \A r \in 1..Len(log) :
              \A n \in Range(log[r].candidates) :
                  WriteField(n) \notin StoredLines(log[r].store_at_start)

\* The fetch of the candidate ended with a well-formed payload, decoded.
FetchedAndDecoded(o) == o.status = 200 /\ o.kind = "good"
NamesOf(os) == [i \in 1..Len(os) |-> os[i].name]

\* C14: when build_database ends it returns one row per candidate whose
\* fetch and decoding succeeded, in candidate order, and no row for a
\* candidate that ended in a 404, exhausted retries or a decoding failure;
\* every row holds the name, the date and a value for every skill and boss
\* column.
C14_RowsPerSuccessfulCandidate ==
    pc \in {"write", "crashed"} =>
        /\ pc = "write"
        /\ NamesOf(CurLog.outcomes) = player_names
        /\ [i \in 1..Len(rows) |-> rows[i][1]]
              = NamesOf(SelectSeq(CurLog.outcomes, FetchedAndDecoded))
        /\ \A i \in 1..Len(rows) :
              /\ Len(rows[i]) = Len(PanelColumns)
              /\ rows[i][2] = run

CountActions(os, action) == Cardinality({i \in 1..Len(os) : os[i].action = action})

\* C16: every candidate of a run is resolved into exactly one of a row, a
\* dropped-store append and a logged skip: when the run ends, rows + appends
\* + skips equals the number of candidates, the rows and appends being those
\* of the run; a well-formed player followed by one answering 404 gives one
\* row, of the former, and one new line of the store, the latter.
C16_OneOutcomePerCandidate ==
    /\ \A r \in 1..Len(log) :
          (r < Len(log) \/ pc \in {"write", "idle", "crashed"}) =>
              LET os == log[r].outcomes
              IN  /\ Len(os) = Len(log[r].candidates)
                  /\ \A i \in 1..Len(os) : os[i].action \in {"row", "dropped", "skipped"}
                  /\ CountActions(os, "row") + CountActions(os, "dropped")
                        + CountActions(os, "skipped") = Len(log[r].candidates)
                  /\ CountActions(os, "dropped") = Len(log[r].appended)
    /\ pc = "write" =>
          /\ Len(rows) = CountActions(CurLog.outcomes, "row")
          /\ dropped_store.lines =
                (IF CurLog.store_at_start = <<>> /\ CurLog.appended # <<>>
                 THEN <<HeaderName>> ELSE CurLog.store_at_start)
                \o [i \in 1..Len(CurLog.appended) |-> WriteField(CurLog.appended[i])]
          /\ (/\ Len(CurLog.outcomes) = 2
              /\ FetchedAndDecoded(CurLog.outcomes[1])
              /\ CurLog.outcomes[2].status = 404) =>
                 /\ Len(rows) = 1 /\ rows[1][1] = player_names[1]
                 /\ CurLog.appended = <<player_names[2]>>

NotFoundOutcomes(os) == SelectSeq(os, LAMBDA o : o.status = 404)

\* C19: the dropped store is read once, before the first candidate, and not
\* consulted during the run: the set loaded and the candidate list stay what
\* they were at the start, the candidates are fetched in list order whatever
\* the run appends, and the appends of a run are the candidate occurrences
\* whose fetch ended in a 404, one append each, so a name that occurs twice
\* and answers 404 is fetched twice and appended twice.
C19_ReadOnceAppendPer404 ==
    /\ (Len(log) >= 1 /\ pc \in {"loop", "attempt", "sleeping", "handle", "write"}) =>
          /\ dropped = CurLog.loaded
          /\ player_names = CurLog.candidates
          /\ player_names = Filter(all_player_names, CurLog.loaded)
    /\ \A r \in 1..Len(log) :
          /\ IsPrefix(log[r].fetched, log[r].candidates)
          /\ log[r].appended = NamesOf(NotFoundOutcomes(log[r].outcomes))

HeaderCount(lines) == Cardinality({i \in 1..Len(lines) : lines[i].kind = "header"})

\* C20: the panel store is append-only across runs: every step leaves what
\* the store held as a prefix of what it holds next, a store that exists goes
\* on existing, and the lines a run adds are its rows, preceded by a header
\* line exactly when the store did not exist at the write step.
C20_PanelStoreAppendOnly ==
    [][/\ IsPrefix(panel_store.lines, panel_store'.lines)
       /\ panel_store.exists => panel_store'.exists
       /\ panel_store' # panel_store =>
             LET added == SubSeq(panel_store'.lines, Len(panel_store.lines) + 1,
                                 Len(panel_store'.lines))
             IN  /\ pc = "write"
                 /\ HeaderCount(added) = (IF panel_store.exists THEN 0 ELSE 1)
                 /\ ~panel_store.exists => added[1].kind = "header"
                 /\ [i \in 1..Len(rows) |-> RowLine(rows[i])]
                       = SubSeq(added, Len(added) - Len(rows) + 1, Len(added))
                 /\ Len(added) = Len(rows) + HeaderCount(added)]_vars

\* Two runs have written: one header line, then a row of the first date and
\* a row of the second.
C20_Witness ==
    /\ pc = "idle" /\ run = 2
    /\ Len(panel_store.lines) = 3
    /\ panel_store.lines[1] = [kind |-> "header", cells |-> PanelColumns]
    /\ panel_store.lines[2].kind = "row" /\ panel_store.lines[2].cells[2] = 1
    /\ panel_store.lines[3].kind = "row" /\ panel_store.lines[3].cells[2] = 2

\* C21: whenever the panel store holds a data row, its first line is the
\* header naming every column (player_name, date, the skill columns, the
\* boss columns), also when the store was created by a run without rows.
C21_HeaderBeforeRows ==
    (\E i \in 1..Len(panel_store.lines) : panel_store.lines[i].kind = "row") =>
        panel_store.lines[1] = [kind |-> "header", cells |-> PanelColumns]

\* ------------------------------------------------------------------------
\* Properties of termination (SpecLive)
\* ------------------------------------------------------------------------

\* The direct call has returned or raised, or the run of the script has
\* ended (the panel written, or the script aborted).
Terminated ==
    \/ run = 0 /\ pc = "handle"
    \/ run >= 1 /\ pc \in {"idle", "crashed"}

WithinBounds ==
    /\ max_retries >= 1 =>
          /\ NetworkCalls <= max_retries
          /\ SleepCount <= max_retries - 1
    /\ run >= 1 => network_calls <= Len(player_names) * max_retries

\* C22: whatever the transport answers, a call of fetch_player_stats with
\* max_retries >= 1 never makes more than max_retries network calls nor more
\* than max_retries - 1 sleeps, a run never makes more than len(candidates) *
\* max_retries network calls, and both eventually end.
C22_TerminatesWithinBounds == []WithinBounds /\ <>Terminated

\* A run over a full candidate list in which every attempt failed: the bound
\* on the network calls is reached.
C22_Witness ==
    /\ run >= 1 /\ pc = "idle"
    /\ Len(player_names) = MaxCands
    /\ network_calls = MaxCands * DefaultMaxRetries

\* ------------------------------------------------------------------------
\* Properties of the name-discovery script (SpecList)
\* ------------------------------------------------------------------------

Distinct(q) == \A i, j \in 1..Len(q) : q[i] = q[j] => i = j
NewNames == [i \in 1..Len(all_new_rows) |-> ReadField(all_new_rows[i].player_name)]
ListDone == pc \in {"list_done", "list_failed"}

SampleWithinBounds ==
    /\ attempts <= max_attempts /\ page_fetches <= max_attempts
    /\ Len(collected) <= TARGET_PER_SKILL
    /\ Distinct(collected)
    /\ Range(collected) \cap existing_names = {}
    /\ \A k \in 1..Len(sample_log) :
          /\ Len(sample_log[k].names) <= TARGET_PER_SKILL
          /\ Distinct(sample_log[k].names)
          /\ Range(sample_log[k].names) \cap sample_log[k].existing = {}
          /\ k > 1 => sample_log[k].existing
                        = sample_log[k - 1].existing \cup Range(sample_log[k - 1].names)
    /\ Distinct(NewNames)
    /\ sample_log # <<>> => Range(NewNames) \cap sample_log[1].existing = {}
    /\ pc \in {"sample", "list_write"} =>
          \A i \in 1..Len(names_file.rows) :
              Strip(ReadField(names_file.rows[i].player_name)) \notin Range(NewNames)

\* C24: sample_names_for_skill makes at most 100 page fetches and returns at
\* most target names, pairwise distinct and none of them in existing_names;
\* over the loop of the skills no name is added twice and none that the
\* names file already held, each call seeing the names of the calls before
\* it; and the script ends.
C24_SamplingBoundedAndDistinct == []SampleWithinBounds /\ <>ListDone

\* A call that used up its 100 page fetches with one name found, after a
\* call that returned its two names.
C24_Witness ==
    /\ pc = "sample" /\ skill_idx = 2
    /\ Len(sample_log) = 1 /\ Len(sample_log[1].names) = TARGET_PER_SKILL
    /\ attempts = max_attempts /\ page_fetches = max_attempts
    /\ Len(collected) = 1

\* ------------------------------------------------------------------------
\* Properties of the delta script (SpecDelta)
\* ------------------------------------------------------------------------

HasDate(p) == p.date # None /\ ~p.date[1].empty
Distance(p) ==
    LET d == Seconds(p.date[1]) - Seconds(target_date)
    IN  IF d < 0 THEN 0 - d ELSE d
PastDecided == pc \in {"delta_current", "delta_row", "delta_done"}

\* C25: get_vorkath_kc_on_date returns the value of the dated point closest
\* to target_date, the earliest of the list on a tie, points without a date
\* being skipped; a missing or negative value is returned as None; and main
\* computes delta_kc = current_kc - past_kc when both are not None, else
\* delta_kc is None.
C25_ClosestPointAndDelta ==
    /\ (PastDecided /\ timeline_resp.status = 200) =>
          LET points == timeline_resp.points
              dated == {i \in 1..Len(points) : HasDate(points[i])}
          IN  IF dated = {} THEN past = <<None, None>>
              ELSE LET b == CHOOSE i \in dated :
                                \A j \in dated :
                                    \/ Distance(points[i]) < Distance(points[j])
                                    \/ Distance(points[i]) = Distance(points[j]) /\ i <= j
                   IN  /\ past[2] = points[b].date
                       /\ past[1] = (IF points[b].value = None \/ points[b].value[1] < 0
                                     THEN None ELSE points[b].value)
    /\ pc = "delta_done" =>
          LET row == delta_rows[Len(delta_rows)]
          IN  /\ row.past_kc = past[1] /\ row.current_kc = current[1]
              /\ (past[1] # None /\ current[1] # None)
                    => row.delta_kc = Some(current[1][1] - past[1][1])
              /\ (past[1] = None \/ current[1] = None) => row.delta_kc = None

\* Two points at the same distance from the target date: the first is taken,
\* and the delta is computed from its value.
C25_Witness ==
    /\ pc = "delta_done"
    /\ timeline_resp.points =
          << [date |-> Some(DateStr(0, 12, TRUE)), value |-> Some(9)],
             [date |-> Some(DateStr(1, 12, TRUE)), value |-> Some(4)] >>
    /\ past = <<Some(9), Some(DateStr(0, 12, TRUE))>>
    /\ current[1] = Some(5)
    /\ delta_rows[1].delta_kc = Some(0 - 4)

\* Properties of the dropped store (SpecStore)
\* ------------------------------------------------------------------------

\* C10: from absent storage load_dropped_players returns the empty set; after
\* any appends the store is one header line followed by the names in call
\* order, one line per call, and load_dropped_players returns exactly the set
\* of names appended.
C10_StoreRoundTrip ==
    /\ events = <<>> => ~dropped_store.exists /\ load_dropped_players(dropped_store) = {}
    /\ events # <<>> => dropped_store.exists /\ dropped_store.lines = <<HeaderName>> \o events
    /\ pc = "loaded" => dropped = Range(events)

====
